---- MODULE Spec2Model ----
(***************************************************************************)
(* Hover tooltip glossary (src/glossary.js): dictionary loader, binder     *)
(* with its bounded retry schedule, and the tooltip controller.            *)
(*                                                                         *)
(* JavaScript values are records [t, s]: t is the type tag and s the       *)
(* characters of a string (empty for the other types).  Strings are        *)
(* sequences of one-character strings so that trim and toLowerCase are     *)
(* computed, not assumed.                                                  *)
(***************************************************************************)
EXTENDS Naturals, Integers, Sequences, FiniteSets, TLC

\* ------------------------------------------------------------ JS values
Str(s)      == [t |-> "string", s |-> s]
Undefined   == [t |-> "undefined", s |-> << >>]
NullV       == [t |-> "null", s |-> << >>]
TrueV       == [t |-> "true", s |-> << >>]
FalseV      == [t |-> "false", s |-> << >>]
NumV        == [t |-> "number", s |-> << >>]     \* a non-zero number

Truthy(v) ==
  CASE v.t = "string" -> v.s # << >>
    [] v.t \in {"true", "number"} -> TRUE
    [] OTHER -> FALSE

IsSpace(c) == c = " "
LowerChar(c) == IF c = "A" THEN "a" ELSE IF c = "B" THEN "b" ELSE c

RECURSIVE trimStart(_)
trimStart(s) ==
  IF s # << >> /\ IsSpace(Head(s)) THEN trimStart(Tail(s)) ELSE s

RECURSIVE trimEnd(_)
trimEnd(s) ==
  IF s # << >> /\ IsSpace(s[Len(s)]) THEN trimEnd(SubSeq(s, 1, Len(s) - 1)) ELSE s

trim(s) == trimEnd(trimStart(s))
toLowerCase(s) == [i \in 1..Len(s) |-> LowerChar(s[i])]

\* normalize(str, caseSensitive): (str || "").trim(), lowercased unless
\* caseSensitive.  A truthy non-string has no trim method: TypeError.
normalize(str, caseSensitive) ==
  IF ~Truthy(str) THEN [throws |-> FALSE, s |-> << >>]
  ELSE IF str.t # "string" THEN [throws |-> TRUE, s |-> << >>]
  ELSE [throws |-> FALSE,
        s |-> IF caseSensitive THEN trim(str.s) ELSE toLowerCase(trim(str.s))]

\* ------------------------------------------------------------ dictionary
\* A term record of the parsed file.  id is the identity of the parsed
\* object (its position in the terms array); t = "null" is a null element.
Entry(i, w, en, d) ==
  [t |-> "object", id |-> i, word |-> w, enabled |-> en, definition |-> d,
   image |-> Undefined, link |-> Undefined]
NullEntry(i) ==
  [t |-> "null", id |-> i, word |-> Undefined, enabled |-> Undefined,
   definition |-> Undefined, image |-> Undefined, link |-> Undefined]

\* settings of the parsed file: absent, or an object with caseSensitive.
NoSettings == [t |-> "undefined", caseSensitive |-> Undefined]
Settings(cs) == [t |-> "object", caseSensitive |-> cs]

\* The parsed body: null, or an object {settings, terms}.
Data(st, isArr, ts) ==
  [t |-> "object", settings |-> st, termsIsArray |-> isArr, terms |-> ts]
NullData == [t |-> "null", settings |-> NoSettings, termsIsArray |-> FALSE, terms |-> << >>]

\* lines 210-213: !!(settings && typeof settings.caseSensitive === "boolean"
\*                   ? settings.caseSensitive : false)
resolveCaseSensitive(data) ==
  IF data.settings.t = "object" /\ data.settings.caseSensitive.t \in {"true", "false"}
  THEN data.settings.caseSensitive.t = "true"
  ELSE FALSE

EmptyMap == [k \in {} |-> NullEntry(0)]
mapSet(map, key, val) ==
  [k \in DOMAIN map \cup {key} |-> IF k = key THEN val ELSE map[k]]

\* The callback of terms.forEach (lines 218-226) applied to one element;
\* acc is [throws, map].
termStepSkipsOnlyNull(acc, t, caseSensitive) ==
  LET key == normalize(t.word, caseSensitive) IN
  IF acc.throws THEN acc
  ELSE IF t.t = "null" THEN acc
  ELSE IF key.throws THEN [throws |-> TRUE, map |-> acc.map]
  ELSE IF key.s = << >> THEN acc
  ELSE [throws |-> FALSE, map |-> mapSet(acc.map, key.s, t)]

termStep(acc, t, caseSensitive) ==
  LET key == normalize(t.word, caseSensitive) IN
  IF acc.throws THEN acc
  ELSE IF t.t = "null" THEN acc
  ELSE IF t.enabled.t = "false" THEN acc
  ELSE IF key.throws THEN [throws |-> TRUE, map |-> acc.map]
  ELSE IF key.s = << >> THEN acc
  ELSE [throws |-> FALSE, map |-> mapSet(acc.map, key.s, t)]

RECURSIVE forEachTerm(_, _, _)
forEachTerm(acc, terms, caseSensitive) ==
  IF terms = << >> THEN acc
  ELSE forEachTerm(termStep(acc, Head(terms), caseSensitive), Tail(terms), caseSensitive)

\* buildMap after loadData returned data (lines 209-229): the index
\* {map, caseSensitive}, or a TypeError (data null, or a word that cannot
\* be trimmed).
indexOf(data) ==
  IF data.t = "null" THEN [throws |-> TRUE, map |-> EmptyMap, caseSensitive |-> FALSE]
  ELSE
    LET cs    == resolveCaseSensitive(data)
        terms == IF data.termsIsArray THEN data.terms ELSE << >>
        r     == forEachTerm([throws |-> FALSE, map |-> EmptyMap], terms, cs)
    IN [throws |-> r.throws, map |-> r.map, caseSensitive |-> cs]

\* wireUp's lookup of one marker (lines 282-286): the matched term record,
\* or none.  getAttribute yields a string or null.
lookup(index, raw) ==
  LET key == normalize(raw, index.caseSensitive).s IN
  IF key \in DOMAIN index.map
  THEN [found |-> TRUE, term |-> index.map[key]]
  ELSE [found |-> FALSE, term |-> NullEntry(0)]

\* ------------------------------------------------------------ rendering
EscapeTextChar(c) ==
  CASE c = "&" -> "&amp;" [] c = "<" -> "&lt;" [] c = ">" -> "&gt;"
    [] c = "\"" -> "&quot;" [] c = "'" -> "&#039;" [] OTHER -> c
EscapeAttrChar(c) ==
  CASE c = "&" -> "&amp;" [] c = "\"" -> "&quot;" [] c = "<" -> "&lt;"
    [] c = ">" -> "&gt;" [] OTHER -> c
escapeText(s) == [i \in 1..Len(s) |-> EscapeTextChar(s[i])]
escapeAttr(s) == [i \in 1..Len(s) |-> EscapeAttrChar(s[i])]

\* (v || "").trim() of lines 153-155
trimmedField(v) ==
  IF ~Truthy(v) THEN [throws |-> FALSE, s |-> << >>]
  ELSE IF v.t # "string" THEN [throws |-> TRUE, s |-> << >>]
  ELSE [throws |-> FALSE, s |-> trim(v.s)]

\* renderDefinition: the blocks of the tooltip's markup, in order.
renderDefinition(termObj) ==
  LET def  == trimmedField(termObj.definition)
      img  == trimmedField(termObj.image)
      link == trimmedField(termObj.link)
  IN IF def.throws \/ img.throws \/ link.throws
     THEN [throws |-> TRUE, html |-> << >>]
     ELSE [throws |-> FALSE,
           html |-> << <<"glossary-tooltip__def", escapeText(def.s)>> >>
                    \o (IF img.s # << >>
                        THEN << <<"glossary-tooltip__media", escapeAttr(img.s)>> >>
                        ELSE << >>)
                    \o (IF link.s # << >>
                        THEN << <<"glossary-tooltip__link", escapeAttr(link.s)>> >>
                        ELSE << >>)]

\* ------------------------------------------------------------ constants
DefaultRetries  == 10      \* boot(retries = 10)
RetryIntervalMs == 800     \* setTimeout(() => boot(retries - 1), 800)
TOOLTIP_BUFFER_PX == 28    \* extra space under the tooltip
EDGE_MARGIN_PX  == 12      \* distance kept from the viewport edges

\* ------------------------------------------------------------ bounds
MaxInflight == 2           \* fetches that may be unresolved at the same time
MaxTerms    == 2           \* length of the terms array of an enumerated file
PosGrid     == 4           \* enumerated measurements are multiples of this (px)
MaxUnits    == 10          \* largest enumerated measurement, in grid units
MaxScrollUnits == 1        \* largest enumerated scroll offset, in grid units

\* ------------------------------------------------------------ the page
\* Markers of the host page: elements of class glossary-term with a
\* data-term attribute.  m1 and m2 match the served dictionary (after
\* normalization), m3 matches nothing.
Markers == {"m1", "m2", "m3"}
MarkerRaw(m) ==
  CASE m = "m1" -> Str(<<" ", "A">>)
    [] m = "m2" -> Str(<<"b">>)
    [] OTHER    -> Str(<<"a", "b">>)
\* markers already in the document when the script runs; the host page
\* inserts the others later
InitialMarkers == {"m1", "m3"}
\* tabindex attribute given by the page author ("" = none)
AuthorTabindex(m) == IF m = "m2" THEN "3" ELSE ""

\* Measurements of the sample page: a viewport of 320 x 240 showing the
\* whole document.  The tooltip of m1 fits below it but ends within the
\* buffer of the document's end; that of m2 fits with room to spare.
SamplePage ==
  [rect |-> [m \in Markers |->
              CASE m = "m1" -> [top |-> 170, bottom |-> 186, left |-> 20]
                [] m = "m2" -> [top |-> 20, bottom |-> 36, left |-> 280]
                [] OTHER    -> [top |-> 100, bottom |-> 116, left |-> 20]],
   tip  |-> [m \in Markers |-> [width |-> 120, height |-> 30]],
   scrollX |-> 0, scrollY |-> 0,
   clientWidth |-> 320, clientHeight |-> 240, contentHeight |-> 240]

GoodFile ==
  Data(NoSettings, TRUE,
       << Entry(1, Str(<<"a">>), Undefined, Str(<<"<", "a">>)),
          Entry(2, Str(<<"B", " ">>), TrueV, Str(<<"b", " ">>)) >>)
\* a record whose word is a number: normalize throws inside buildMap
BadWordFile ==
  Data(NoSettings, TRUE, << Entry(1, NumV, Undefined, Str(<<"a">>)) >>)
\* a record whose definition is a number: renderDefinition throws
BadDefinitionFile ==
  Data(NoSettings, TRUE,
       << Entry(1, Str(<<"a">>), Undefined, Str(<<"a">>)),
          Entry(2, Str(<<"b">>), Undefined, NumV) >>)
ServedFiles == {GoodFile, BadWordFile, BadDefinitionFile, NullData}

VARIABLES
  file,         \* the parsed body of glossary.json as the host serves it
  dataCache,    \* let dataCache (NullData = null)
  mapCache,     \* let mapCache  (t = "null" = null)
  inflight,     \* wireUp calls suspended at await fetch(...)
  bootTimer,    \* the pending setTimeout of boot, if any
  passes,       \* number of boot invocations so far
  lastOutcome,  \* how the most recently settled wireUp() promise ended
  present,      \* markers currently in the document
  tabindex,     \* tabindex attribute of each marker
  handlers,     \* per marker: the term captured by each attachToTermEl call
  ctl,          \* tooltipEl, its display and innerHTML, activeAnchor, hideTimer
  hiddenBy,     \* which trigger last hid a visible tooltip (history)
  probe,        \* result of the last index lookup (index specification only)
  geom          \* what the browser measures: rects, scroll offsets, viewport

vars == <<file, dataCache, mapCache, inflight, bootTimer, passes, lastOutcome,
          present, tabindex, handlers, ctl, hiddenBy, probe, geom>>

NullIndex == [t |-> "null", map |-> EmptyMap, caseSensitive |-> FALSE]
NoTimer == [pending |-> FALSE, retries |-> 0, delay |-> 0]
NoProbe == [raw |-> Undefined, found |-> FALSE, term |-> NullEntry(0)]

\* ------------------------------------------------------------ tooltip controller
\* ctl.tooltipEl is the number of tooltip elements appended to the body
\* (tooltipEl is non-null iff it is positive).  ctl.hideTimer is "null",
\* "armed" (the handle of a pending timer) or "spent" (the handle of a timer
\* that fired or was cleared); ctl.strayTimers counts pending hide timers
\* whose handle was overwritten.  top and left are tip.style.top/left in px;
\* spacerEl says whether the page has a #glossary-spacer element and
\* spacerHeight is its style.height; ensureTimer says whether some
\* setTimeout(ensureTooltipNotClipped, 50) is pending.
InitCtl ==
  [tooltipEl |-> 0, display |-> "none", innerHTML |-> << >>,
   activeAnchor |-> "null", hideTimer |-> "null", strayTimers |-> 0,
   top |-> 0, left |-> 0, spacerEl |-> TRUE, spacerHeight |-> 0,
   ensureTimer |-> FALSE]

Max2(a, b) == IF a >= b THEN a ELSE b

\* setSpacerHeight(px) (lines 36-40)
setSpacerHeight(c, px) ==
  IF ~c.spacerEl THEN c ELSE [c EXCEPT !.spacerHeight = Max2(0, px)]
resetSpacer(c) == setSpacerHeight(c, 0)

\* positionTooltip without "if (top < viewTop) top = viewTop"
positionTooltipNoFloor(g, anchorEl) ==
  LET rect       == g.rect[anchorEl]
      tipRect    == g.tip[anchorEl]
      viewLeft   == g.scrollX + EDGE_MARGIN_PX
      viewBottom == g.scrollY + g.clientHeight - EDGE_MARGIN_PX
      viewRight  == g.scrollX + g.clientWidth - EDGE_MARGIN_PX
      below      == g.scrollY + rect.bottom + EDGE_MARGIN_PX
      top1       == IF below + tipRect.height > viewBottom
                    THEN g.scrollY + rect.top - tipRect.height - EDGE_MARGIN_PX
                    ELSE below
      left0      == g.scrollX + rect.left
      left1      == IF left0 + tipRect.width > viewRight
                    THEN viewRight - tipRect.width ELSE left0
      left2      == IF left1 < viewLeft THEN viewLeft ELSE left1
  IN [top |-> top1, left |-> left2]
\* positionTooltip comparing the anchor's left, not the tooltip's right
\* edge, with the right limit
positionTooltipLeftEdgeOnly(g, anchorEl) ==
  LET rect       == g.rect[anchorEl]
      tipRect    == g.tip[anchorEl]
      viewTop    == g.scrollY + EDGE_MARGIN_PX
      viewLeft   == g.scrollX + EDGE_MARGIN_PX
      viewBottom == g.scrollY + g.clientHeight - EDGE_MARGIN_PX
      viewRight  == g.scrollX + g.clientWidth - EDGE_MARGIN_PX
      below      == g.scrollY + rect.bottom + EDGE_MARGIN_PX
      top1       == IF below + tipRect.height > viewBottom
                    THEN g.scrollY + rect.top - tipRect.height - EDGE_MARGIN_PX
                    ELSE below
      top2       == IF top1 < viewTop THEN viewTop ELSE top1
      left0      == g.scrollX + rect.left
      left1      == IF left0 > viewRight
                    THEN viewRight - tipRect.width ELSE left0
      left2      == IF left1 < viewLeft THEN viewLeft ELSE left1
  IN [top |-> top2, left |-> left2]
\* positionTooltip(anchorEl) (lines 115-150) on the measurements g: the
\* below placement, flipped above on overflow, then clamped.
positionTooltip(g, anchorEl) ==
  LET rect       == g.rect[anchorEl]
      tipRect    == g.tip[anchorEl]
      viewTop    == g.scrollY + EDGE_MARGIN_PX
      viewLeft   == g.scrollX + EDGE_MARGIN_PX
      viewBottom == g.scrollY + g.clientHeight - EDGE_MARGIN_PX
      viewRight  == g.scrollX + g.clientWidth - EDGE_MARGIN_PX
      below      == g.scrollY + rect.bottom + EDGE_MARGIN_PX
      top1       == IF below + tipRect.height > viewBottom
                    THEN g.scrollY + rect.top - tipRect.height - EDGE_MARGIN_PX
                    ELSE below
      top2       == IF top1 < viewTop THEN viewTop ELSE top1
      left0      == g.scrollX + rect.left
      left1      == IF left0 + tipRect.width > viewRight
                    THEN viewRight - tipRect.width ELSE left0
      left2      == IF left1 < viewLeft THEN viewLeft ELSE left1
  IN [top |-> top2, left |-> left2]

\* ensureTooltipNotClipped (lines 46-74).  The document is as high as its
\* content plus the spacer, and at least as high as the viewport; the
\* tooltip's height is that of the content of the anchor it shows.
ensureTooltipNotClipped(c, g) ==
  IF ~c.spacerEl \/ c.tooltipEl = 0 \/ c.display = "none" THEN c
  ELSE
    LET tooltipBottomInDoc == c.top + g.tip[c.activeAnchor].height
        docHeight     == Max2(g.contentHeight + c.spacerHeight, g.clientHeight)
        desiredHeight == tooltipBottomInDoc + TOOLTIP_BUFFER_PX
    IN IF desiredHeight > docHeight
       THEN setSpacerHeight(c, c.spacerHeight + (desiredHeight - docHeight))
       ELSE c

createTooltip(c) ==
  IF c.tooltipEl > 0 THEN c
  ELSE [c EXCEPT !.tooltipEl = 1, !.display = "none"]

\* if (hideTimer) clearTimeout(hideTimer)
clearHideTimer(c) ==
  IF c.hideTimer = "armed" THEN [c EXCEPT !.hideTimer = "spent"] ELSE c

\* scheduleHide without the clearTimeout: the earlier timer stays pending
scheduleHideStacking(c) ==
  IF c.hideTimer = "armed" THEN [c EXCEPT !.strayTimers = @ + 1]
  ELSE [c EXCEPT !.hideTimer = "armed"]
scheduleHide(c) == [clearHideTimer(c) EXCEPT !.hideTimer = "armed"]

\* hideTooltip without resetSpacer()
hideTooltipKeepsSpacer(c) ==
  IF c.tooltipEl = 0 THEN c
  ELSE [c EXCEPT !.display = "none", !.innerHTML = << >>, !.activeAnchor = "null"]
\* hideTooltip without tooltipEl.innerHTML = ""
hideTooltipKeepsContent(c) ==
  IF c.tooltipEl = 0 THEN c
  ELSE resetSpacer([c EXCEPT !.display = "none", !.activeAnchor = "null"])
hideTooltip(c) ==
  IF c.tooltipEl = 0 THEN c
  ELSE resetSpacer([c EXCEPT !.display = "none", !.innerHTML = << >>,
                             !.activeAnchor = "null"])

\* the tooltip's own listeners (lines 87-90)
tooltipMouseenter(c) == clearHideTimer(c)
tooltipMouseleaveHidesNow(c) == hideTooltip(c)
tooltipMouseleave(c) == scheduleHide(c)

showTooltipKeepsAnchor(c, anchorEl, termObj) ==
  LET tip == createTooltip(c)
      r   == renderDefinition(termObj)
      at  == positionTooltip(geom, anchorEl)
  IN IF r.throws THEN tip
     ELSE [tip EXCEPT !.innerHTML = r.html, !.display = "block",
                      !.activeAnchor = IF c.activeAnchor = "null" THEN anchorEl
                                       ELSE c.activeAnchor,
                      !.top = at.top, !.left = at.left, !.ensureTimer = TRUE]

showTooltip(c, anchorEl, termObj) ==
  LET tip == createTooltip(c)
      r   == renderDefinition(termObj)
      at  == positionTooltip(geom, anchorEl)
  IN IF r.throws THEN tip
     ELSE [ensureTooltipNotClipped(
             [tip EXCEPT !.innerHTML = r.html, !.display = "block",
                         !.activeAnchor = anchorEl,
                         !.top = at.top, !.left = at.left], geom)
           EXCEPT !.ensureTimer = TRUE]

\* the listeners attachToTermEl adds to a marker (lines 251-274)
onMouseenter(c, termEl, termObj) == showTooltip(clearHideTimer(c), termEl, termObj)
onFocus(c, termEl, termObj) == showTooltip(c, termEl, termObj)
onClick(c, termEl, termObj) ==
  IF c.activeAnchor = termEl /\ c.tooltipEl > 0 /\ c.display = "block"
  THEN hideTooltip(c)
  ELSE showTooltip(c, termEl, termObj)

listener(kind, c, termEl, termObj) ==
  CASE kind = "mouseenter" -> onMouseenter(c, termEl, termObj)
    [] kind = "focus"      -> onFocus(c, termEl, termObj)
    [] OTHER               -> onClick(c, termEl, termObj)

\* The browser runs the listeners of one event on one element in the order
\* they were added; captured is the term each closure holds.
RECURSIVE dispatch(_, _, _, _)
dispatch(kind, c, termEl, captured) ==
  IF captured = << >> THEN c
  ELSE dispatch(kind, listener(kind, c, termEl, Head(captured)), termEl, Tail(captured))

\* ------------------------------------------------------------ binder
\* attachToTermEl (lines 247-275): tabindex only if absent; the three
\* closures are new function objects on every call, so each call adds one
\* more mouseenter, focus and click listener.
attachTabindex(cur) == IF cur = "" THEN "0" ELSE cur
attachHandlers(cur, termObj) == Append(cur, termObj)

\* nodes.forEach of wireUp (lines 280-289) over the markers in the document
boundTabindex(index) ==
  [m \in Markers |->
     IF present[m] /\ lookup(index, MarkerRaw(m)).found
     THEN attachTabindex(tabindex[m]) ELSE tabindex[m]]
\* boundHandlers without "if (!termObj) return"
boundHandlersEveryMarker(index) ==
  [m \in Markers |->
     IF present[m]
     THEN attachHandlers(handlers[m], lookup(index, MarkerRaw(m)).term)
     ELSE handlers[m]]
boundHandlers(index) ==
  [m \in Markers |->
     IF present[m] /\ lookup(index, MarkerRaw(m)).found
     THEN attachHandlers(handlers[m], lookup(index, MarkerRaw(m)).term)
     ELSE handlers[m]]

\* boot's wireUp().catch(err => console.warn(...)) (line 306): what becomes
\* of the promise wireUp returned.
settleUncaught(rejected) == IF rejected THEN "uncaught" ELSE "fulfilled"
settle(rejected) == IF rejected THEN "warned" ELSE "fulfilled"

\* if (retries <= 0) return; setTimeout(() => boot(retries - 1), 800)
rescheduleOneMore(retries) ==
  IF retries < 0 THEN NoTimer
  ELSE [pending |-> TRUE, retries |-> retries - 1, delay |-> RetryIntervalMs]
reschedule(retries) ==
  IF retries <= 0 THEN NoTimer
  ELSE [pending |-> TRUE, retries |-> retries - 1, delay |-> RetryIntervalMs]

\* loadData's guard (line 198): a fetch is needed unless dataCache is truthy
needsFetch == dataCache.t = "null"

\* buildMap resumed with data (lines 209-229) and the rest of wireUp:
\* either the pass rejects, leaving everything as it was, or mapCache is
\* assigned and the markers in the document are bound.
FinishPass(data) ==
  LET idx == indexOf(data) IN
  IF idx.throws
  THEN /\ lastOutcome' = settle(TRUE)
       /\ UNCHANGED <<mapCache, tabindex, handlers>>
  ELSE /\ mapCache' = [t |-> "object", map |-> idx.map, caseSensitive |-> idx.caseSensitive]
       /\ tabindex' = boundTabindex(idx)
       /\ handlers' = boundHandlers(idx)
       /\ lastOutcome' = settle(FALSE)

\* boot(retries): the initial call of line 311, or the retry timer firing.
\* wireUp runs to its first real suspension: bind from mapCache, or build
\* from dataCache, or issue a fetch and suspend.
Boot ==
  /\ bootTimer.pending
  /\ passes' = passes + 1
  /\ bootTimer' = reschedule(bootTimer.retries)
  /\ IF mapCache.t = "object"
     THEN /\ tabindex' = boundTabindex(mapCache)
          /\ handlers' = boundHandlers(mapCache)
          /\ lastOutcome' = settle(FALSE)
          /\ UNCHANGED <<mapCache, inflight>>
     ELSE IF ~needsFetch
     THEN /\ FinishPass(dataCache)
          /\ UNCHANGED inflight
     ELSE /\ inflight < MaxInflight
          /\ inflight' = inflight + 1
          /\ UNCHANGED <<mapCache, tabindex, handlers, lastOutcome>>
  /\ UNCHANGED <<file, dataCache, present, ctl, hiddenBy, probe, geom>>

\* The fetch of one suspended pass settles (lines 200-203).  "ok": status
\* 2xx and a body that parses; the others reject loadData.
FetchOutcomes == {"ok", "status", "parse", "network"}
FetchSettle(outcome) ==
  /\ inflight > 0
  /\ inflight' = inflight - 1
  /\ IF outcome = "ok"
     THEN /\ dataCache' = file
          /\ FinishPass(file)
     ELSE /\ lastOutcome' = settle(TRUE)
          /\ UNCHANGED <<dataCache, mapCache, tabindex, handlers>>
  /\ UNCHANGED <<file, bootTimer, passes, present, ctl, hiddenBy, probe, geom>>

\* The host page inserts a marker into the document.
Inject(m) ==
  /\ ~present[m]
  /\ present' = [present EXCEPT ![m] = TRUE]
  /\ UNCHANGED <<file, dataCache, mapCache, inflight, bootTimer, passes,
                 lastOutcome, tabindex, handlers, ctl, hiddenBy, probe, geom>>

\* ------------------------------------------------------------ events
\* document click listener (lines 297-302); target is a marker, "tip" (in
\* the tooltip) or "body" (anywhere else).
documentClick(c, target) ==
  IF c.tooltipEl = 0 THEN c
  ELSE IF target \notin Markers /\ target # "tip" THEN hideTooltip(c)
  ELSE c

\* document keydown listener (lines 293-295)
documentKeydownDeferred(c, key) == IF key = "Escape" THEN scheduleHide(c) ELSE c
documentKeydown(c, key) == IF key = "Escape" THEN hideTooltip(c) ELSE c

\* history: the trigger of a step that hid a visible tooltip
causeOf(before, after, trigger) ==
  IF after.display = "block" THEN "none"
  ELSE IF before.display = "block" THEN trigger
  ELSE hiddenBy

UiFrame == UNCHANGED <<file, dataCache, mapCache, inflight, bootTimer, passes,
                       lastOutcome, present, tabindex, handlers, probe, geom>>

\* mouseenter, focus or click on a bound marker: every listener added for
\* that event runs.  The click listeners stop propagation.
MarkerShowEvent(kind, m) ==
  /\ present[m]
  /\ handlers[m] # << >>
  /\ ctl' = dispatch(kind, ctl, m, handlers[m])
  /\ hiddenBy' = causeOf(ctl, ctl', "toggle")
  /\ UiFrame

\* mouseleave or blur on a bound marker: scheduleHide is one function, so
\* addEventListener keeps a single listener however often it is added.
MarkerLeaveEvent(m) ==
  /\ present[m]
  /\ handlers[m] # << >>
  /\ ctl' = scheduleHide(ctl)
  /\ UNCHANGED hiddenBy
  /\ UiFrame

\* a click that reaches the document: on the body, inside the tooltip, or
\* on a marker without listeners
DocumentClick(target) ==
  /\ target \in Markers => present[target] /\ handlers[target] = << >>
  /\ target = "tip" => ctl.tooltipEl > 0 /\ ctl.display = "block"
  /\ ctl' = documentClick(ctl, target)
  /\ hiddenBy' = causeOf(ctl, ctl', "outside")
  /\ UiFrame

Keydown(key) ==
  /\ ctl' = documentKeydown(ctl, key)
  /\ hiddenBy' = causeOf(ctl, ctl', "Escape")
  /\ UiFrame

\* tooltip mouseenter (lines 87-89) and mouseleave (line 90)
TooltipMouseenter ==
  /\ ctl.tooltipEl > 0 /\ ctl.display = "block"
  /\ ctl' = tooltipMouseenter(ctl)
  /\ UNCHANGED hiddenBy
  /\ UiFrame

TooltipMouseleave ==
  /\ ctl.tooltipEl > 0 /\ ctl.display = "block"
  /\ ctl' = tooltipMouseleave(ctl)
  /\ UNCHANGED hiddenBy
  /\ UiFrame

\* the hide timer fires: hideTooltip runs, the handle stays in hideTimer
HideTimerFire ==
  /\ ctl.hideTimer = "armed"
  /\ ctl' = [hideTooltip(ctl) EXCEPT !.hideTimer = "spent"]
  /\ hiddenBy' = causeOf(ctl, ctl', "timer")
  /\ UiFrame

\* a pending setTimeout(ensureTooltipNotClipped, 50) fires; others may
\* still be pending after it
EnsureTimerFire ==
  /\ ctl.ensureTimer
  /\ \E more \in BOOLEAN :
       ctl' = [ensureTooltipNotClipped(ctl, geom) EXCEPT !.ensureTimer = more]
  /\ UNCHANGED hiddenBy
  /\ UiFrame

Init ==
  /\ file \in ServedFiles
  /\ dataCache = NullData
  /\ mapCache = NullIndex
  /\ inflight = 0
  /\ bootTimer = [pending |-> TRUE, retries |-> DefaultRetries, delay |-> 0]
  /\ passes = 0
  /\ lastOutcome = "none"
  /\ present = [m \in Markers |-> m \in InitialMarkers]
  /\ tabindex = [m \in Markers |-> AuthorTabindex(m)]
  /\ handlers = [m \in Markers |-> << >>]
  /\ ctl = InitCtl
  /\ hiddenBy = "none"
  /\ probe = NoProbe
  /\ geom = SamplePage

Next ==
  \/ Boot
  \/ \E o \in FetchOutcomes : FetchSettle(o)
  \/ \E m \in Markers : Inject(m)
  \/ \E k \in {"mouseenter", "focus", "click"}, m \in Markers : MarkerShowEvent(k, m)
  \/ \E m \in Markers : MarkerLeaveEvent(m)
  \/ \E t \in Markers \cup {"tip", "body"} : DocumentClick(t)
  \/ \E k \in {"Escape", "Enter"} : Keydown(k)
  \/ TooltipMouseenter
  \/ TooltipMouseleave
  \/ HideTimerFire
  \/ EnsureTimerFire

Spec == Init /\ [][Next]_vars

\* ------------------------------------------------------------ index specification
\* buildMap and the marker lookup as pure functions of the served file: every
\* file with at most MaxTerms term records drawn from the values below.  The
\* state is that of a page whose last retry pass is still waiting for its
\* fetch (the earlier ones failed).
IndexWords ==
  {Undefined, NumV, Str(<<" ">>), Str(<<"a">>), Str(<<" ", "A">>), Str(<<"b">>)}
IndexEnabled == {Undefined, TrueV, FalseV}
IndexElements ==
  {NullEntry(0)} \cup
  {Entry(0, w, en, Str(<<"a">>)) : w \in IndexWords, en \in IndexEnabled}
IndexSettings ==
  {NoSettings, Settings(TrueV), Settings(FalseV), Settings(Str(<<"a">>))}
TermLists(n) ==
  {[i \in 1..n |-> [ch[i] EXCEPT !.id = i]] : ch \in [1..n -> IndexElements]}
EnumFiles ==
  {Data(st, TRUE, ts) :
     st \in IndexSettings, ts \in UNION {TermLists(n) : n \in 0..MaxTerms}}
  \cup {Data(st, FALSE, ts) : st \in IndexSettings, ts \in TermLists(1)}
ProbeRaws == {Str(<< >>), Str(<<"a">>), Str(<<"A", " ">>), Str(<<"b">>)}

\* wireUp reading one marker whose data-term attribute is raw
LookupMarker(raw) ==
  /\ mapCache.t = "object"
  /\ probe' = [raw |-> raw,
               found |-> lookup(mapCache, raw).found,
               term |-> lookup(mapCache, raw).term]
  /\ UNCHANGED <<file, dataCache, mapCache, inflight, bootTimer, passes,
                 lastOutcome, present, tabindex, handlers, ctl, hiddenBy, geom>>

InitIndex ==
  /\ file \in EnumFiles
  /\ dataCache = NullData
  /\ mapCache = NullIndex
  /\ inflight = 1
  /\ bootTimer = NoTimer
  /\ passes = DefaultRetries + 1
  /\ lastOutcome = "warned"
  /\ present = [m \in Markers |-> m \in InitialMarkers]
  /\ tabindex = [m \in Markers |-> AuthorTabindex(m)]
  /\ handlers = [m \in Markers |-> << >>]
  /\ ctl = InitCtl
  /\ hiddenBy = "none"
  /\ probe = NoProbe
  /\ geom = SamplePage

NextIndex ==
  \/ \E o \in FetchOutcomes : FetchSettle(o)
  \/ \E raw \in ProbeRaws : LookupMarker(raw)

SpecIndex == InitIndex /\ [][NextIndex]_vars

\* ------------------------------------------------------------ positioning specification
\* positionTooltip as a pure function of what the browser measures.  The
\* state is that of a page whose last retry pass fetched the file and bound
\* the markers (the earlier passes failed); the pointer enters m1, whose
\* box, tooltip size, scroll offsets and viewport are enumerated, one axis
\* at a time, the other axis being that of the sample page.
Px(units) == {PosGrid * u : u \in units}
WithM1(rect, tip, page) ==
  [page EXCEPT !.rect = [SamplePage.rect EXCEPT !["m1"] = rect],
               !.tip  = [SamplePage.tip  EXCEPT !["m1"] = tip]]
VerticalCases ==
  {WithM1([top |-> t, bottom |-> t + h, left |-> SamplePage.rect["m1"].left],
          [width |-> SamplePage.tip["m1"].width, height |-> th],
          [SamplePage EXCEPT !.scrollY = sy, !.clientHeight = ch]) :
     t \in Px(-1..MaxUnits), h \in Px(1..2), th \in Px(1..MaxUnits),
     sy \in Px(0..MaxScrollUnits), ch \in Px(1..MaxUnits)}
HorizontalCases ==
  {WithM1([top |-> SamplePage.rect["m1"].top,
           bottom |-> SamplePage.rect["m1"].bottom, left |-> l],
          [width |-> tw, height |-> SamplePage.tip["m1"].height],
          [SamplePage EXCEPT !.scrollX = sx, !.clientWidth = cw]) :
     l \in Px(-1..MaxUnits), tw \in Px(1..MaxUnits),
     sx \in Px(0..MaxScrollUnits), cw \in Px(1..MaxUnits)}

\* The page after a schedule whose pass number firstBuild built the index:
\* every matching marker has one handler set per pass since then.
InitBound(firstBuild) ==
  LET idx  == indexOf(GoodFile)
      sets == DefaultRetries + 1 - firstBuild + 1
  IN
  /\ file = GoodFile
  /\ dataCache = GoodFile
  /\ mapCache = [t |-> "object", map |-> idx.map,
                 caseSensitive |-> idx.caseSensitive]
  /\ inflight = 0
  /\ bootTimer = NoTimer
  /\ passes = DefaultRetries + 1
  /\ lastOutcome = "fulfilled"
  /\ present = [m \in Markers |-> TRUE]
  /\ tabindex = [m \in Markers |->
                   IF lookup(idx, MarkerRaw(m)).found
                   THEN attachTabindex(AuthorTabindex(m)) ELSE AuthorTabindex(m)]
  /\ handlers = [m \in Markers |->
                   IF lookup(idx, MarkerRaw(m)).found
                   THEN [i \in 1..sets |-> lookup(idx, MarkerRaw(m)).term]
                   ELSE << >>]
  /\ hiddenBy = "none"
  /\ probe = NoProbe

InitPos ==
  /\ InitBound(DefaultRetries + 1)
  /\ ctl = InitCtl
  /\ geom \in VerticalCases \cup HorizontalCases

NextPos == MarkerShowEvent("mouseenter", "m1")

SpecPos == InitPos /\ [][NextPos]_vars

\* ------------------------------------------------------------ tooltip specification
\* The tooltip controller on a page whose retry schedule is over: the index
\* was built by the last pass or by the one before it, and the page has a
\* spacer element or none.  Only user events and timers remain; a hide
\* timer that stays armed fires.
InitUi ==
  /\ \E firstBuild \in {DefaultRetries, DefaultRetries + 1} : InitBound(firstBuild)
  /\ ctl \in {InitCtl, [InitCtl EXCEPT !.spacerEl = FALSE]}
  /\ geom = SamplePage

NextUi ==
  \/ \E k \in {"mouseenter", "focus", "click"}, m \in Markers : MarkerShowEvent(k, m)
  \/ \E m \in Markers : MarkerLeaveEvent(m)
  \/ \E t \in Markers \cup {"tip", "body"} : DocumentClick(t)
  \/ \E key \in {"Escape", "a"} : Keydown(key)
  \/ TooltipMouseenter
  \/ TooltipMouseleave
  \/ HideTimerFire
  \/ EnsureTimerFire

SpecUi == InitUi /\ [][NextUi]_vars
LiveSpecUi == SpecUi /\ WF_vars(HideTimerFire)

\* ------------------------------------------------------------ vocabulary of the claims
IsHidden(c) == c.activeAnchor = "null" /\ c.display = "none" /\ c.innerHTML = << >>
IsVisible(c, m) == c.activeAnchor = m /\ c.display = "block"
Bound(m) == handlers[m] # << >>
\* one click on marker t: its own listeners if it has any, else the click
\* bubbles to the document
ClickOn(t) ==
  IF t \in Markers /\ Bound(t) THEN MarkerShowEvent("click", t) ELSE DocumentClick(t)

\* ------------------------------------------------------------ claims

\* C1: binding is idempotent across the retry schedule: whatever the number
\* of bind passes that saw a marker, exactly one handler set is attached to
\* it (so one event runs each kind of handler once).
C1_OneHandlerSet ==
  \A m \in Markers : Len(handlers[m]) <= 1

\* C2: every show cancels the pending hide timer: after a pointer-enter,
\* focus or click on a bound marker that leaves its tooltip visible, no hide
\* timer is pending.
C2_ShowCancelsHide ==
  [][\A k \in {"mouseenter", "focus", "click"}, m \in Markers :
       (MarkerShowEvent(k, m) /\ IsVisible(ctl', m)) => ctl'.hideTimer # "armed"]_vars

\* C3: the dictionary is fetched at most once while a load is unresolved:
\* at most one fetch is in flight, whatever the latency and the number of
\* retry passes that call the loader meanwhile.
C3_SingleFetch ==
  inflight <= 1

\* C4: click toggle: at any point of the retry schedule one click on a bound
\* marker m in state Hidden leaves Visible(m), and one click on m in state
\* Visible(m) leaves Hidden with empty content.
C4_ClickToggles ==
  [][\A m \in Markers :
       (Bound(m) /\ MarkerShowEvent("click", m)
        /\ ~renderDefinition(handlers[m][1]).throws) =>
         /\ IsHidden(ctl) => IsVisible(ctl', m)
         /\ IsVisible(ctl, m) => IsHidden(ctl')]_vars

\* C5: anchor switch without a gap: in state Visible(m1), a click,
\* pointer-enter or focus on another bound marker m2 ends in Visible(m2).
C5_AnchorSwitch ==
  [][\A k \in {"mouseenter", "focus", "click"}, m1 \in Markers, m2 \in Markers :
       (m1 # m2 /\ IsVisible(ctl, m1) /\ Bound(m2) /\ MarkerShowEvent(k, m2)
        /\ ~renderDefinition(handlers[m2][1]).throws)
         => IsVisible(ctl', m2)]_vars

\* C6: tooltip state invariant: at most one tooltip element exists;
\* activeAnchor is none exactly when the element is hidden with empty
\* content; when activeAnchor is a marker m the element is displayed and its
\* content is the rendering of the entry the index gives for m.
C6_TooltipStateInvariant ==
  /\ ctl.tooltipEl <= 1
  /\ ctl.activeAnchor = "null" <=> (ctl.display = "none" /\ ctl.innerHTML = << >>)
  /\ ctl.activeAnchor # "null" =>
       /\ ctl.tooltipEl = 1
       /\ ctl.display = "block"
       /\ mapCache.t = "object"
       /\ lookup(mapCache, MarkerRaw(ctl.activeAnchor)).found
       /\ ctl.innerHTML =
            renderDefinition(lookup(mapCache, MarkerRaw(ctl.activeAnchor)).term).html

\* the tooltip shows m2 after an earlier tooltip was hidden by the timer,
\* on a marker that several passes have bound
C6_Witness ==
  /\ IsVisible(ctl, "m2")
  /\ Len(handlers["m2"]) >= 2
  /\ Len(handlers["m1"]) > Len(handlers["m2"])
  /\ ctl.hideTimer = "spent"
  /\ ctl.innerHTML = << <<"glossary-tooltip__def", <<"b">> >> >>

\* C7 as claimed: from any Visible(m) state, Escape, or a click whose
\* target is neither inside the active marker nor inside the tooltip, leaves
\* the state Hidden with empty content.
C7_OutsideActiveMarkerHides ==
  [][(ctl.display = "block" /\ ctl.activeAnchor # "null") =>
       /\ Keydown("Escape") => IsHidden(ctl')
       /\ \A t \in (Markers \cup {"body"}) \ {ctl.activeAnchor} :
            ClickOn(t) => IsHidden(ctl')]_vars

\* C7 amended: from any Visible(m) state, Escape, or a click whose target is
\* inside no marker-class element and not inside the tooltip, leaves the
\* state Hidden with activeAnchor none and empty content.
C7_EscapeOrOutsideHides ==
  [][(ctl.display = "block" /\ ctl.activeAnchor # "null") =>
       /\ Keydown("Escape") => IsHidden(ctl')
       /\ DocumentClick("body") => IsHidden(ctl')]_vars

\* a tooltip that was visible has just been hidden by a click on the body
C7_Witness ==
  /\ hiddenBy = "outside"
  /\ ctl.tooltipEl = 1
  /\ IsHidden(ctl)

\* C8: the retry schedule is bounded: one initial pass and exactly 10
\* delayed re-invocations, each armed with the same interval; after the
\* 11th pass no retry timer is pending, whatever the passes did.
C8_RetryScheduleBounded ==
  /\ passes <= 11
  /\ bootTimer.pending => /\ passes + bootTimer.retries = 10
                          /\ passes >= 1 => bootTimer.delay = 800
  /\ ~bootTimer.pending => passes = 11

\* all 11 passes ran and every one of them failed; nothing is pending
C8_Witness ==
  /\ passes = 11
  /\ ~bootTimer.pending
  /\ inflight = 0
  /\ mapCache.t = "null"
  /\ lastOutcome = "warned"

\* C9: a failing bind pass does not stop the schedule: when a pass rejects
\* (its fetch fails, or the index cannot be built) the rejection ends as a
\* warning, not as an uncaught error; markers and tooltip state are left as
\* they were; and the next pass stays scheduled unless this was the last.
PassRejects ==
  /\ mapCache'.t = "null"
  /\ \/ inflight' < inflight
     \/ passes' > passes /\ inflight' = inflight
C9_FailedPassContinues ==
  [][PassRejects =>
       /\ lastOutcome' = "warned"
       /\ handlers' = handlers /\ tabindex' = tabindex /\ ctl' = ctl
       /\ passes' < 11 => bootTimer'.pending
       /\ inflight' < inflight => bootTimer' = bootTimer]_vars

\* the first pass failed, and a later pass built the index and bound m1
C9_Witness ==
  /\ passes = 2
  /\ inflight = 0
  /\ lastOutcome = "fulfilled"
  /\ dataCache.t = "object"
  /\ Len(handlers["m1"]) = 1
  /\ bootTimer.pending

\* C10: index construction matches the reference rule: the index holds
\* exactly the normalized words of the records that are non-null, not
\* enabled === false and non-empty after trim (lowercased unless
\* caseSensitive), each key maps to the last such record in list order, and
\* the marker lookup normalizes with the same flag.
RefFlag == file.settings.t = "object" /\ file.settings.caseSensitive = TrueV
RefTerms == IF file.termsIsArray THEN file.terms ELSE << >>
RefMin(S) == CHOOSE x \in S : \A y \in S : x <= y
RefMax(S) == CHOOSE x \in S : \A y \in S : x >= y
RefTrimmed(s) ==
  LET ink == {i \in 1..Len(s) : s[i] # " "} IN
  IF ink = {} THEN << >> ELSE SubSeq(s, RefMin(ink), RefMax(ink))
RefLower(s) == [i \in 1..Len(s) |-> CASE s[i] = "A" -> "a" [] s[i] = "B" -> "b" [] OTHER -> s[i]]
RefKey(v) ==
  LET w == IF v.t = "string" THEN RefTrimmed(v.s) ELSE << >> IN
  IF RefFlag THEN w ELSE RefLower(w)
RefIndexed ==
  {i \in 1..Len(RefTerms) :
     /\ RefTerms[i].t # "null"
     /\ RefTerms[i].enabled # FalseV
     /\ RefKey(RefTerms[i].word) # << >>}
C10_IndexMatchesReference ==
  mapCache.t = "object" =>
    /\ mapCache.caseSensitive = RefFlag
    /\ DOMAIN mapCache.map = {RefKey(RefTerms[i].word) : i \in RefIndexed}
    /\ \A k \in DOMAIN mapCache.map :
         mapCache.map[k] =
           RefTerms[RefMax({i \in RefIndexed : RefKey(RefTerms[i].word) = k})]
    /\ probe.raw.t = "string" =>
         /\ probe.found <=> RefKey(probe.raw) \in DOMAIN mapCache.map
         /\ probe.found => probe.term = mapCache.map[RefKey(probe.raw)]

\* two enabled records normalize to the same key; the later one is indexed
\* and the lookup of a differently written attribute finds it
C10_Witness ==
  /\ mapCache.t = "object"
  /\ Len(file.terms) = 2 /\ file.termsIsArray
  /\ file.terms[1].t = "object" /\ file.terms[1].word = Str(<<"a">>)
  /\ file.terms[1].enabled = Undefined
  /\ file.terms[2].t = "object" /\ file.terms[2].word = Str(<<" ", "A">>)
  /\ file.terms[2].enabled = TrueV
  /\ mapCache.map[<<"a">>].id = 2
  /\ probe.raw = Str(<<"A", " ">>) /\ probe.found /\ probe.term.id = 2

\* ------------------------------------------------------------ positioning claims
\* the measurements of the anchor whose tooltip is shown
BelowOverflows(m) ==
  geom.scrollY + geom.rect[m].bottom + EDGE_MARGIN_PX + geom.tip[m].height
    > geom.scrollY + geom.clientHeight - EDGE_MARGIN_PX
AboveTop(m) == geom.scrollY + geom.rect[m].top - geom.tip[m].height - EDGE_MARGIN_PX
FloorTop == geom.scrollY + EDGE_MARGIN_PX
FloorLeft == geom.scrollX + EDGE_MARGIN_PX
RightLimit == geom.scrollX + geom.clientWidth - EDGE_MARGIN_PX

\* C11 as stated: whenever the below placement would overflow the viewport's
\* bottom edge, the final top equals the above-placement formula, and the
\* final top is never less than the floor scrollY + margin.
C11_AbovePlacementOnOverflow ==
  \A m \in Markers :
    (IsVisible(ctl, m) /\ BelowOverflows(m)) =>
      /\ ctl.top = AboveTop(m)
      /\ ctl.top >= FloorTop

\* C11 amended: whenever the below placement would overflow, the final top
\* is the larger of the above-placement formula and the floor scrollY +
\* margin; the final top is never less than the floor.
C11_AbovePlacementOrFloor ==
  \A m \in Markers :
    IsVisible(ctl, m) =>
      /\ BelowOverflows(m) => ctl.top = Max2(AboveTop(m), FloorTop)
      /\ ctl.top >= FloorTop
\* the tooltip does not fit below m1, nor above it: it sits at the floor
C11_Witness ==
  /\ IsVisible(ctl, "m1") /\ BelowOverflows("m1")
  /\ AboveTop("m1") < FloorTop /\ ctl.top = FloorTop
  /\ geom.rect["m1"].top > 0 /\ geom.tip["m1"].height > 0

\* C12 as stated: the final left satisfies both left >= scrollX + margin and
\* left + tipWidth <= scrollX + viewportWidth - margin.
C12_HorizontalClamp ==
  \A m \in Markers :
    IsVisible(ctl, m) =>
      /\ ctl.left >= FloorLeft
      /\ ctl.left + geom.tip[m].width <= RightLimit

\* C12 amended: the final left is never less than scrollX + margin, and
\* left + tipWidth <= scrollX + viewportWidth - margin whenever the tooltip
\* is no wider than the viewport less both margins.
C12_HorizontalClampWhenFits ==
  \A m \in Markers :
    IsVisible(ctl, m) =>
      /\ ctl.left >= FloorLeft
      /\ geom.tip[m].width <= geom.clientWidth - 2 * EDGE_MARGIN_PX
           => ctl.left + geom.tip[m].width <= RightLimit
\* the anchor's left would push the tooltip over the right edge; it is
\* pulled back to end at the right limit
C12_Witness ==
  /\ IsVisible(ctl, "m1")
  /\ geom.scrollX + geom.rect["m1"].left + geom.tip["m1"].width > RightLimit
  /\ ctl.left + geom.tip["m1"].width = RightLimit
  /\ ctl.left > FloorLeft

\* ------------------------------------------------------------ binder claims
\* the index of the served file has no key for marker m
ServedIndex == indexOf(file)
Unmatched(m) ==
  \/ ServedIndex.throws
  \/ normalize(MarkerRaw(m), ServedIndex.caseSensitive).s \notin DOMAIN ServedIndex.map

\* C13: a marker whose data-term normalizes to a key absent from the index
\* is left unchanged by every bind pass (its tabindex is the author's, it
\* has no listeners), and it never becomes the tooltip's active anchor.
C13_UnmatchedUntouched ==
  \A m \in Markers :
    Unmatched(m) =>
      /\ tabindex[m] = AuthorTabindex(m)
      /\ handlers[m] = << >>
      /\ ctl.activeAnchor # m
\* m3 matches no key: two passes bound m1, m3 is as authored, and the
\* tooltip is on m1
C13_Witness ==
  /\ ~ServedIndex.throws /\ Unmatched("m3") /\ present["m3"]
  /\ Len(handlers["m1"]) >= 2
  /\ handlers["m3"] = << >> /\ tabindex["m3"] = ""
  /\ IsVisible(ctl, "m1")

\* C14: bind passes never overlap: a pass starts only when no earlier pass
\* is still in progress (waiting for its fetch).
C14_PassesNeverOverlap ==
  [][passes' > passes => inflight = 0]_vars

\* C15: the index is built at most once and never replaced: once mapCache
\* holds an index, no pass builds an index and assigns mapCache again.
AssignsMapCache ==
  \/ FetchSettle("ok") /\ ~indexOf(file).throws
  \/ Boot /\ mapCache.t = "null" /\ ~needsFetch /\ ~indexOf(dataCache).throws
C15_IndexBuiltOnce ==
  [][mapCache.t = "object" => ~AssignsMapCache]_vars

\* C18: a malformed term record is skipped, not an error: once the file is
\* fetched and parsed, the index is built and has the key of every
\* well-formed enabled record, whatever the other records' words are.
C18_MalformedSkipped ==
  dataCache.t = "object" =>
    /\ mapCache.t = "object"
    /\ {RefKey(RefTerms[i].word) : i \in RefIndexed} \subseteq DOMAIN mapCache.map

\* ------------------------------------------------------------ tooltip claims
\* C16: spacer growth is fully reversed on hide: after any sequence of
\* show, hide, anchor-switch and timer events, whenever the tooltip is
\* Hidden the spacer's height is 0.
C16_SpacerZeroWhenHidden ==
  IsHidden(ctl) => ctl.spacerHeight = 0
\* the tooltip of m1 grew the spacer; the hide timer hid it and the spacer
\* is back at 0 with a clipping re-check still pending
C16_Witness ==
  /\ IsHidden(ctl) /\ ctl.tooltipEl > 0 /\ hiddenBy = "timer"
  /\ ctl.spacerEl /\ ctl.spacerHeight = 0 /\ ctl.ensureTimer
  /\ ctl.top = positionTooltip(geom, "m1").top
  /\ ensureTooltipNotClipped(
        [ctl EXCEPT !.display = "block", !.activeAnchor = "m1"], geom).spacerHeight > 0

\* C17: hover bridging: the pointer entering the tooltip cancels the hide
\* timer and leaves the tooltip as it is; while no hide timer is armed a
\* visible tooltip leaves its anchor only by Escape, an outside click or a
\* marker event; the pointer leaving the tooltip arms the hide timer and
\* leaves the tooltip as it is.
SameTooltip ==
  /\ ctl'.display = ctl.display /\ ctl'.activeAnchor = ctl.activeAnchor
  /\ ctl'.innerHTML = ctl.innerHTML
C17_HoverBridging ==
  [][/\ TooltipMouseenter => ctl'.hideTimer # "armed" /\ SameTooltip
     /\ TooltipMouseleave => ctl'.hideTimer = "armed" /\ SameTooltip
     /\ \A m \in Markers :
          (IsVisible(ctl, m) /\ ctl.hideTimer # "armed" /\ ~IsVisible(ctl', m)) =>
            \/ Keydown("Escape")
            \/ DocumentClick("body")
            \/ \E k \in {"mouseenter", "focus", "click"}, n \in Markers :
                 MarkerShowEvent(k, n)]_vars
\* the tooltip is on m1 and its hide timer was armed and is no longer
C17_Witness ==
  /\ IsVisible(ctl, "m1") /\ ctl.hideTimer = "spent" /\ ctl.strayTimers = 0

\* C19: at most one hide timer is pending at any time: no timer whose
\* handle was overwritten is still pending.
C19_OneHideTimer ==
  ctl.strayTimers = 0
\* a hide timer is armed for the tooltip of m2, whose marker two passes bound
C19_Witness ==
  /\ ctl.hideTimer = "armed" /\ ctl.strayTimers = 0
  /\ IsVisible(ctl, "m2") /\ Len(handlers["m2"]) >= 2

\* C20: hide eventually happens: from Visible(m) with the hide timer armed,
\* the tooltip becomes Hidden with empty content, unless the timer is
\* cancelled while the tooltip is still displayed.
C20_HideEventuallyHappens ==
  \A m \in Markers :
    (IsVisible(ctl, m) /\ ctl.hideTimer = "armed")
      ~> (IsHidden(ctl) \/ (ctl.display = "block" /\ ctl.hideTimer # "armed"))
\* the hide timer fired and hid the tooltip
C20_Witness ==
  /\ IsHidden(ctl) /\ hiddenBy = "timer" /\ ctl.hideTimer = "spent"
  /\ ctl.tooltipEl > 0
====
